---- MODULE Spec2Model ----
(***************************************************************************)
(* Model of src/music_generator.py: the greedy no-repeat matching of music *)
(* clips to paragraphs (find_closest_music), the assembly of the timeline  *)
(* (create_music_sequence) and the ambient mix of main.                    *)
(*                                                                         *)
(* An AudioSegment is modelled by its length in milliseconds: every pydub  *)
(* operation the program uses (+, [:n], append, silent, fade_in, fade_out, *)
(* overlay, gain) is modelled by its effect on the length, and append also *)
(* by the ValueError it raises.  Proportions are exact rationals k/PropDen *)
(* and volumes are tenths; emotion coordinates are small integers.         *)
(***************************************************************************)
EXTENDS Integers, Sequences, FiniteSets

----------------------------------------------------------------------------
(* Bounds of the model and constants of the program *)

MaxParagraphs == 2
MaxClips == 2
PropDen == 20

DefaultTotal == 60000
DefaultCrossfade == 5000
DefaultFade == 3000
AmbientTarget == 60000
AmbientFade == 3000

\* find_closest_music returns None; a variable holding no AudioSegment yet
None == 0
NoAudio == 0 - 1

\* Proportion numerators (over PropDen) a paragraph boundary is drawn from
Cuts == {0, 1, 10, PropDen}
\* Emotion points <<valence, arousal>> for a whole run, and the coordinate
\* grid for find_closest_music on its own
RunEmotions == {<<0, 0>>, <<1, 1>>}
EmotionValues == {0, 1, 2}
\* Lengths (ms) of the clips found in music_library/
ClipLengths == {1, 4, 70000}
\* (total_duration, crossfade_duration, fade_duration) of a direct call
Configs ==
    { [total |-> DefaultTotal, crossfade |-> DefaultCrossfade, fade |-> DefaultFade],
      [total |-> 10, crossfade |-> 3, fade |-> 3],
      [total |-> 10, crossfade |-> 0, fade |-> 0],
      [total |-> 7, crossfade |-> 3, fade |-> 2] }
\* Volume multipliers of main, in tenths (0.0 to 2.0)
Volumes == {0, 5, 10, 15, 20}
\* Lengths (ms) of the ambient file main may pick
AmbientLengths == {1, 7, 59999, 60000, 60001, 150000}

VARIABLES
    paragraphs,          \* text_emotions['paragraphs']
    music_library,       \* the library dict, in iteration order
    music_files,         \* id -> length of the clips that were loaded
    total_duration,
    crossfade_duration,
    fade_duration,
    used_music,
    music_segments,
    i,                   \* paragraphs processed so far
    duration,            \* duration of the paragraph processed last
    closest_music,       \* match of the paragraph processed last
    skipped,             \* indices of the paragraphs that hit `continue`
    final_audio,
    j,                   \* next segment to append in the join loop
    pc,
    ambient_volume,
    music_volume,
    ambient_sound,
    ambient_db,
    music_db,
    mixed_audio

vars == <<paragraphs, music_library, music_files, total_duration,
          crossfade_duration, fade_duration, used_music, music_segments, i,
          duration, closest_music, skipped, final_audio, j, pc, ambient_volume,
          music_volume, ambient_sound, ambient_db, music_db, mixed_audio>>

inputVars == <<paragraphs, music_library, music_files, total_duration,
               crossfade_duration, fade_duration, ambient_volume, music_volume>>
loopVars == <<used_music, music_segments, i, duration, closest_music, skipped>>
mainVars == <<ambient_sound, ambient_db, music_db, mixed_audio>>

----------------------------------------------------------------------------
(* pydub.AudioSegment, by length *)

Min(a, b) == IF a < b THEN a ELSE b

\* seg[:n] for n >= 0
SliceTo(len, n) == Min(n, len)

\* a + b of two segments
Concat(a, b) == a + b

\* AudioSegment.silent(duration=d)
Silent(d) == d

\* seg.fade_in(d) / seg.fade_out(d), d no longer than the segment: the length
\* is kept
FadeIn(len, d) == len
FadeOut(len, d) == len

\* a.append(b, crossfade=x) raises ValueError when x exceeds either length
AppendRaises(a, b, x) == x # 0 /\ (x > a \/ x > b)
AppendLen(a, b, x) == IF x = 0 THEN a + b ELSE a + b - x

\* the extension done once, by an `if` in place of the `while`
LoopExtend_Once(len, d) == IF len < d THEN Concat(len, len) ELSE len

\* while len(seg) < d: seg = seg + seg
RECURSIVE LoopExtend(_, _)
LoopExtend(len, d) == IF len < d THEN LoopExtend(Concat(len, len), d) ELSE len

\* the loop and the trim that follows it
PrepareSegment(len, d) == SliceTo(LoopExtend(len, d), d)

----------------------------------------------------------------------------
(* find_closest_music *)

Inf == 0 - 1

\* the radicand of the distance; np.sqrt keeps its order
distance(emotions, music_emotions) ==
    (emotions.valence - music_emotions.valence)
        * (emotions.valence - music_emotions.valence)
    + (emotions.arousal - music_emotions.arousal)
        * (emotions.arousal - music_emotions.arousal)

\* the comparison made with <=, so that the last of a tie wins
Closer_OrEqual(d, min_distance) == min_distance = Inf \/ d <= min_distance

\* distance < min_distance, with min_distance starting at float('inf')
Closer(d, min_distance) == min_distance = Inf \/ d < min_distance

RECURSIVE FindLoop(_, _, _, _, _, _)
FindLoop(emotions, library, used, k, min_distance, closest) ==
    IF k > Len(library) THEN closest
    ELSE IF library[k].id \in used
         THEN FindLoop(emotions, library, used, k + 1, min_distance, closest)
         ELSE IF Closer(distance(emotions, library[k]), min_distance)
              THEN FindLoop(emotions, library, used, k + 1,
                            distance(emotions, library[k]), library[k].id)
              ELSE FindLoop(emotions, library, used, k + 1, min_distance, closest)

\* the search made without the used_music test
find_closest_music_NoExclusion(emotions, library, used) ==
    FindLoop(emotions, library, {}, 1, Inf, None)

find_closest_music(emotions, library, used) ==
    FindLoop(emotions, library, used, 1, Inf, None)

----------------------------------------------------------------------------
(* create_music_sequence *)

\* int(x) of the quotient n / d, d > 0: truncation toward zero
IntOf(n, d) == IF n >= 0 THEN n \div d ELSE 0 - ((0 - n) \div d)

\* round(x) of the quotient n / d, n >= 0, d > 0: to nearest, halves to even
RoundOf(n, d) ==
    LET q == n \div d
        r == n % d
    IN IF 2 * r < d THEN q
       ELSE IF 2 * r > d THEN q + 1
       ELSE IF q % 2 = 0 THEN q ELSE q + 1

\* the duration rounded to nearest in place of int()
RawDuration_Rounded(paragraph, total) ==
    RoundOf((paragraph.end - paragraph.start) * total, PropDen)

\* int((end_proportion - start_proportion) * total_duration)
RawDuration(paragraph, total) ==
    IntOf((paragraph.end - paragraph.start) * total, PropDen)

\* the duration of the paragraph at 0-based index idx
PlannedDuration(paragraph, idx, total, crossfade) ==
    IF idx > 0 THEN RawDuration(paragraph, total) + crossfade
    ELSE RawDuration(paragraph, total)

\* `if closest_music not in music_files: continue`
Skips(m, files) == m \notin DOMAIN files

\* the id marked used at match time, before the availability test
UsedAfter_MarkAtMatch(used, m, files) ==
    IF m = None THEN used ELSE used \cup {m}

\* used_music after the iteration that matched m
UsedAfter(used, m, files) ==
    IF Skips(m, files) THEN used ELSE used \cup {m}

\* the segment put at the front of the list
SegmentsAfter_Prepend(segments, m, files, idx, d) ==
    IF Skips(m, files) THEN segments
    ELSE <<[clip |-> m, par |-> idx, len |-> PrepareSegment(files[m], d)]>>
         \o segments

\* music_segments after the iteration of paragraph idx that matched m
SegmentsAfter(segments, m, files, idx, d) ==
    IF Skips(m, files) THEN segments
    ELSE Append(segments,
                [clip |-> m, par |-> idx, len |-> PrepareSegment(files[m], d)])

\* one iteration of the paragraph loop
ProcessParagraph ==
    /\ pc = "loop"
    /\ i < Len(paragraphs)
    /\ LET paragraph == paragraphs[i + 1]
           d == PlannedDuration(paragraph, i, total_duration, crossfade_duration)
           m == find_closest_music(paragraph.emotions, music_library, used_music)
       IN /\ duration' = d
          /\ closest_music' = m
          /\ used_music' = UsedAfter(used_music, m, music_files)
          /\ music_segments' = SegmentsAfter(music_segments, m, music_files, i, d)
          /\ skipped' = IF Skips(m, music_files) THEN skipped \cup {i} ELSE skipped
    /\ i' = i + 1
    /\ UNCHANGED <<final_audio, j, pc>>
    /\ UNCHANGED <<inputVars, mainVars>>

\* the loop is over: silence when no segment, else start from the first
StartCombine ==
    /\ pc = "loop"
    /\ i = Len(paragraphs)
    /\ IF music_segments = << >>
       THEN /\ final_audio' = Silent(total_duration)
            /\ pc' = "done"
            /\ j' = j
       ELSE /\ final_audio' = music_segments[1].len
            /\ pc' = "join"
            /\ j' = 2
    /\ UNCHANGED loopVars
    /\ UNCHANGED <<inputVars, mainVars>>

\* final_audio = final_audio.append(segment, crossfade=crossfade_duration)
AppendSegment ==
    /\ pc = "join"
    /\ j <= Len(music_segments)
    /\ IF AppendRaises(final_audio, music_segments[j].len, crossfade_duration)
       THEN /\ pc' = "error"
            /\ UNCHANGED <<final_audio, j>>
       ELSE /\ final_audio' = AppendLen(final_audio, music_segments[j].len,
                                        crossfade_duration)
            /\ j' = j + 1
            /\ pc' = pc
    /\ UNCHANGED loopVars
    /\ UNCHANGED <<inputVars, mainVars>>

\* trim or pad to total_duration
AdjustLength(len, total) ==
    IF len > total THEN SliceTo(len, total)
    ELSE IF len < total THEN Concat(len, Silent(total - len))
    ELSE len

\* the adjustment to the target duration, the fades and the return
Adjust ==
    /\ pc = "join"
    /\ j > Len(music_segments)
    /\ final_audio' = FadeOut(FadeIn(AdjustLength(final_audio, total_duration),
                                     fade_duration), fade_duration)
    /\ pc' = "done"
    /\ UNCHANGED <<loopVars, j>>
    /\ UNCHANGED <<inputVars, mainVars>>

----------------------------------------------------------------------------
(* Inputs *)

ParagraphsOfLen(n, emotionSet) ==
    { [k \in 1..n |-> [emotions |-> [valence |-> e[k][1], arousal |-> e[k][2]],
                       start |-> c[2 * k - 1], end |-> c[2 * k]]] :
        <<c, e>> \in
          { x \in [1..(2 * n) -> Cuts] \X [1..n -> emotionSet] :
              /\ \A k \in 1..n : x[1][2 * k - 1] < x[1][2 * k]
              /\ \A k \in 1..(n - 1) : x[1][2 * k] <= x[1][2 * k + 1] } }

ParagraphLists(maxn, emotionSet) ==
    UNION { ParagraphsOfLen(n, emotionSet) : n \in 0..maxn }

Libraries(maxn, emotionSet) ==
    UNION { { [k \in 1..n |-> [id |-> k, valence |-> e[k][1], arousal |-> e[k][2]]] :
                e \in [1..n -> emotionSet] } : n \in 0..maxn }

\* the clips os.path.exists finds, each with the length of its audio
LoadedFiles(library) ==
    UNION { [S -> ClipLengths] : S \in SUBSET { library[k].id : k \in DOMAIN library } }

InitSeq ==
    /\ used_music = {}
    /\ music_segments = << >>
    /\ i = 0
    /\ duration = 0
    /\ closest_music = None
    /\ skipped = {}
    /\ final_audio = NoAudio
    /\ j = 0
    /\ pc = "loop"

InitMainVars ==
    /\ ambient_sound = NoAudio
    /\ ambient_db = [finite |-> TRUE, milli |-> 0]
    /\ music_db = [finite |-> TRUE, milli |-> 0]
    /\ mixed_audio = NoAudio

\* a direct call of create_music_sequence
Init ==
    /\ paragraphs \in ParagraphLists(MaxParagraphs, RunEmotions)
    /\ music_library \in Libraries(MaxClips, RunEmotions)
    /\ music_files \in LoadedFiles(music_library)
    /\ \E c \in Configs :
         /\ total_duration = c.total
         /\ crossfade_duration = c.crossfade
         /\ fade_duration = c.fade
    /\ ambient_volume = 10
    /\ music_volume = 10
    /\ InitSeq
    /\ InitMainVars

NextSeq ==
    \/ ProcessParagraph
    \/ StartCombine
    \/ AppendSegment
    \/ Adjust

Spec == Init /\ [][NextSeq]_vars

----------------------------------------------------------------------------
(* main *)

\* np.log10 of a multiplier given in tenths, in thousandths; log10(0) is -inf
Log10(v) ==
    IF v = 0 THEN [finite |-> FALSE, milli |-> 0]
    ELSE [finite |-> TRUE,
          milli |-> CASE v = 5 -> 0 - 301
                      [] v = 10 -> 0
                      [] v = 15 -> 176
                      [] v = 20 -> 301]

\* 20 * np.log10(volume)
VolumeToDb(v) ==
    [finite |-> Log10(v).finite, milli |-> 20 * Log10(v).milli]

\* seg + db: the gain changes no length
ApplyGain(len, db) == len

\* a.overlay(b): the result is as long as a
Overlay(a, b) == a

\* the ambient sound made 60 seconds long
NormalizeAmbientLen(len) ==
    IF len > AmbientTarget THEN SliceTo(len, AmbientTarget)
    ELSE IF len < AmbientTarget
         THEN SliceTo(LoopExtend(len, AmbientTarget), AmbientTarget)
         ELSE len

\* the music is exported and an ambient file is picked, if there is one
LoadAmbience ==
    /\ pc = "done"
    /\ \/ /\ ambient_sound' = NoAudio
          /\ pc' = "exported"
       \/ \E len \in AmbientLengths :
            /\ ambient_sound' = len
            /\ pc' = "ambient"
    /\ UNCHANGED <<ambient_db, music_db, mixed_audio>>
    /\ UNCHANGED <<inputVars, loopVars, final_audio, j>>

\* trim or loop to 60 seconds, then fade in and out
NormalizeAmbient ==
    /\ pc = "ambient"
    /\ ambient_sound' = FadeOut(FadeIn(NormalizeAmbientLen(ambient_sound),
                                       AmbientFade), AmbientFade)
    /\ pc' = "gains"
    /\ UNCHANGED <<ambient_db, music_db, mixed_audio>>
    /\ UNCHANGED <<inputVars, loopVars, final_audio, j>>

\* the multipliers become decibels and are applied to both buffers
ApplyGains ==
    /\ pc = "gains"
    /\ ambient_db' = VolumeToDb(ambient_volume)
    /\ music_db' = VolumeToDb(music_volume)
    /\ final_audio' = ApplyGain(final_audio, VolumeToDb(music_volume))
    /\ ambient_sound' = ApplyGain(ambient_sound, VolumeToDb(ambient_volume))
    /\ pc' = "mix"
    /\ UNCHANGED mixed_audio
    /\ UNCHANGED <<inputVars, loopVars, j>>

\* the overlay and its export
Mix ==
    /\ pc = "mix"
    /\ mixed_audio' = Overlay(final_audio, ambient_sound)
    /\ pc' = "exported"
    /\ UNCHANGED <<ambient_sound, ambient_db, music_db>>
    /\ UNCHANGED <<inputVars, loopVars, final_audio, j>>

\* main(ambient_volume, music_volume): the sequence is built with the defaults
InitMain ==
    /\ paragraphs \in ParagraphLists(2, {<<0, 0>>})
    /\ music_library \in Libraries(2, {<<0, 0>>})
    /\ music_files \in LoadedFiles(music_library)
    /\ total_duration = DefaultTotal
    /\ crossfade_duration = DefaultCrossfade
    /\ fade_duration = DefaultFade
    /\ ambient_volume \in Volumes
    /\ music_volume \in Volumes
    /\ InitSeq
    /\ InitMainVars

NextMain ==
    \/ ProcessParagraph
    \/ StartCombine
    \/ AppendSegment
    \/ Adjust
    \/ LoadAmbience
    \/ NormalizeAmbient
    \/ ApplyGains
    \/ Mix

SpecMain == InitMain /\ [][NextMain]_vars

----------------------------------------------------------------------------
(* find_closest_music on its own: any target, library and exclusion set *)

FindEmotions == EmotionValues \X EmotionValues

InitFind ==
    /\ paragraphs \in ParagraphsOfLen(1, FindEmotions)
    /\ paragraphs[1].start = 0
    /\ paragraphs[1].end = PropDen
    /\ music_library \in Libraries(MaxClips + 1, FindEmotions)
    /\ music_files = << >>
    /\ total_duration = DefaultTotal
    /\ crossfade_duration = DefaultCrossfade
    /\ fade_duration = DefaultFade
    /\ ambient_volume = 10
    /\ music_volume = 10
    /\ used_music \in SUBSET (1..(MaxClips + 1))
    /\ music_segments = << >>
    /\ i = 0
    /\ duration = 0
    /\ closest_music = None
    /\ skipped = {}
    /\ final_audio = NoAudio
    /\ j = 0
    /\ pc = "find"
    /\ InitMainVars

FindClosest ==
    /\ pc = "find"
    /\ closest_music' = find_closest_music(paragraphs[1].emotions, music_library,
                                           used_music)
    /\ pc' = "found"
    /\ UNCHANGED <<used_music, music_segments, i, duration, skipped, final_audio, j>>
    /\ UNCHANGED <<inputVars, mainVars>>

SpecFind == InitFind /\ [][FindClosest]_vars

----------------------------------------------------------------------------
(* the loop-extension and trim on their own: any clip, any duration *)

MaxClipLen == 6
MaxDuration == 14

InitLoop ==
    /\ paragraphs = << >>
    /\ music_library = <<[id |-> 1, valence |-> 0, arousal |-> 0]>>
    /\ music_files \in [{1} -> 1..MaxClipLen]
    /\ total_duration = DefaultTotal
    /\ crossfade_duration = DefaultCrossfade
    /\ fade_duration = DefaultFade
    /\ ambient_volume = 10
    /\ music_volume = 10
    /\ used_music = {}
    /\ music_segments = << >>
    /\ i = 0
    /\ duration \in 0..MaxDuration
    /\ closest_music = 1
    /\ skipped = {}
    /\ final_audio = NoAudio
    /\ j = 0
    /\ pc = "prepare"
    /\ ambient_sound \in AmbientLengths \cup (1..MaxClipLen)
    /\ ambient_db = [finite |-> TRUE, milli |-> 0]
    /\ music_db = [finite |-> TRUE, milli |-> 0]
    /\ mixed_audio = NoAudio

\* the loop and trim of a segment
PrepareMusic ==
    /\ pc = "prepare"
    /\ music_segments' = SegmentsAfter(music_segments, closest_music, music_files,
                                       i, duration)
    /\ pc' = "ambient"
    /\ UNCHANGED <<used_music, i, duration, closest_music, skipped, final_audio, j>>
    /\ UNCHANGED <<inputVars, mainVars>>

NextLoop ==
    \/ PrepareMusic
    \/ NormalizeAmbient

SpecLoop == InitLoop /\ [][NextLoop]_vars

----------------------------------------------------------------------------
(* Properties *)

\* the paragraph processed last; a matched id that has no loaded audio
LastParagraph == paragraphs[i]
Unavailable(m) == m # None /\ m \notin DOMAIN music_files

\* C1: for every input create_music_sequence returns a buffer, and the buffer
\* is exactly total_duration long, whatever the number of segments.
C1_ReturnsTotalLength ==
    pc \in {"done", "error"} => (pc = "done" /\ final_audio = total_duration)

\* C2: the clips of the segments appended so far are pairwise distinct and
\* each of them is in used_music.
C2_NoClipReused ==
    /\ \A a, b \in DOMAIN music_segments :
         a # b => music_segments[a].clip # music_segments[b].clip
    /\ \A a \in DOMAIN music_segments : music_segments[a].clip \in used_music

\* two segments, the second of a paragraph whose closest clip of the whole
\* library is the clip the first segment took
C2_Witness ==
    /\ Len(music_segments) = 2
    /\ \E k \in DOMAIN music_library :
         /\ music_library[k].id = music_segments[1].clip
         /\ \A m \in DOMAIN music_library :
              m # k =>
                distance(paragraphs[music_segments[2].par + 1].emotions,
                         music_library[k])
                < distance(paragraphs[music_segments[2].par + 1].emotions,
                           music_library[m])

\* the squared Euclidean distance of library entry k to the target
RefDist(k) ==
    (paragraphs[1].emotions.valence - music_library[k].valence)
        * (paragraphs[1].emotions.valence - music_library[k].valence)
    + (paragraphs[1].emotions.arousal - music_library[k].arousal)
        * (paragraphs[1].emotions.arousal - music_library[k].arousal)
RefCandidates == { k \in DOMAIN music_library : music_library[k].id \notin used_music }
RefClosest ==
    IF RefCandidates = {} THEN None
    ELSE music_library[CHOOSE k \in RefCandidates :
                          /\ \A m \in RefCandidates : RefDist(k) <= RefDist(m)
                          /\ \A m \in RefCandidates : m < k => RefDist(k) < RefDist(m)].id

\* C3: find_closest_music returns None exactly when every library id is
\* excluded (or the library is empty), and otherwise the non-excluded id at
\* minimal Euclidean distance, the first in iteration order among ties.
C3_MatchesReference ==
    pc = "found" =>
      /\ closest_music = RefClosest
      /\ (closest_music = None) <=> (RefCandidates = {})

\* a tie at the minimal distance between two candidates, a closer clip
\* excluded, and the first of the tie returned
C3_Witness ==
    /\ pc = "found"
    /\ \E a, b, x \in DOMAIN music_library :
         /\ a < b
         /\ music_library[a].id \notin used_music
         /\ music_library[b].id \notin used_music
         /\ music_library[x].id \in used_music
         /\ RefDist(a) = RefDist(b)
         /\ RefDist(x) < RefDist(a)
         /\ \A m \in RefCandidates : RefDist(a) <= RefDist(m)
         /\ closest_music = music_library[a].id

\* the crossfade added to the paragraph processed last
LastCompensation == IF i - 1 > 0 THEN crossfade_duration ELSE 0
LastProduct == (LastParagraph.end - LastParagraph.start) * total_duration

\* C4 as stated: the planned duration is the rounded product, plus the
\* crossfade for every paragraph but the first.
C4_RoundedDuration ==
    i > 0 => duration = RoundOf(LastProduct, PropDen) + LastCompensation

\* C4 amended: the planned duration is the product truncated toward zero,
\* plus the crossfade for every paragraph but the first of the input list;
\* halves [0,0.5) and [0.5,1) of 60000 with crossfade 5000 get 30000 and 35000.
C4_TruncatedDuration ==
    /\ i > 0 =>
         LET raw == duration - LastCompensation
         IN /\ raw * PropDen <= LastProduct
            /\ LastProduct < (raw + 1) * PropDen
    /\ ( /\ i > 0
         /\ total_duration = 60000
         /\ crossfade_duration = 5000
         /\ 2 * (LastParagraph.end - LastParagraph.start) = PropDen )
       => duration = IF i = 1 THEN 30000 ELSE 35000

\* a second paragraph of 19/20 of 10 ms with crossfade 3: int(9.5) + 3
C4_Witness ==
    /\ i = 2
    /\ total_duration = 10
    /\ crossfade_duration = 3
    /\ 20 * (LastParagraph.end - LastParagraph.start) = 19 * PropDen
    /\ duration = 12

\* C5 as stated: a matched id without loadable audio is in used_music after
\* the match.
C5_MarkedAtMatch ==
    (i > 0 /\ Unavailable(closest_music)) => closest_music \in used_music

\* C5 amended: a matched id without loadable audio is not added to
\* used_music (no id without audio is ever in it), so it stays a candidate
\* for the later paragraphs.
C5_NotMarkedOnSkip ==
    /\ (i > 0 /\ Unavailable(closest_music)) => closest_music \notin used_music
    /\ \A m \in used_music : m \in DOMAIN music_files

\* two paragraphs in a row matched to the same clip without audio while
\* another clip had audio
C5_Witness ==
    /\ i = 2
    /\ skipped = {0, 1}
    /\ Unavailable(closest_music)
    /\ DOMAIN music_files # {}
    /\ \E k \in DOMAIN music_library :
         /\ music_library[k].id = closest_music
         /\ \A m \in DOMAIN music_library :
              m < k => distance(paragraphs[1].emotions, music_library[k])
                       < distance(paragraphs[1].emotions, music_library[m])
         /\ \A m \in DOMAIN music_library :
              m > k => distance(paragraphs[1].emotions, music_library[k])
                       <= distance(paragraphs[1].emotions, music_library[m])

\* a step that skips its paragraph changes neither music_segments nor
\* used_music
C6_SkipFrame ==
    (i' = i + 1 /\ (closest_music' = None \/ closest_music' \notin DOMAIN music_files))
      => /\ music_segments' = music_segments
         /\ used_music' = used_music
         /\ i \in skipped'

\* the segments are, in order, the processed paragraphs that were not
\* skipped, and used_music holds exactly their clips
C6_Order ==
    /\ \A a, b \in DOMAIN music_segments :
         a < b => music_segments[a].par < music_segments[b].par
    /\ { music_segments[a].par : a \in DOMAIN music_segments } = (0..(i - 1)) \ skipped
    /\ used_music = { music_segments[a].clip : a \in DOMAIN music_segments }

\* C6: a skipped paragraph appends no segment and leaves used_music
\* unchanged; the segments are in paragraph order, one for each paragraph
\* that was not skipped.
C6_SkipLeavesNoTrace == [][C6_SkipFrame]_vars /\ []C6_Order

\* a paragraph was skipped and a later one received a segment
C6_Witness ==
    /\ pc = "join"
    /\ \E p \in skipped : \E a \in DOMAIN music_segments : music_segments[a].par > p

\* C7: create_music_sequence never ends in an error, and returns silence of
\* length total_duration when every paragraph was skipped.
C7_NoFatalPath ==
    /\ pc # "error"
    /\ (pc = "done" /\ music_segments = << >>) => final_audio = Silent(total_duration)

\* C8: the gains main applies are finite for every pair of multipliers
\* between 0.0 and 2.0.
C8_GainsFinite ==
    (pc = "mix" \/ mixed_audio # NoAudio) => (music_db.finite /\ ambient_db.finite)

\* C9: the looped and trimmed segment is exactly as long as its planned
\* duration, and the normalized ambient sound exactly 60000 ms.
C9_ExactLength ==
    /\ pc # "prepare" =>
         /\ Len(music_segments) = 1
         /\ music_segments[1].len = duration
    /\ pc = "gains" => ambient_sound = 60000

\* a clip of 3 ms doubled to 12 ms and trimmed to 7 ms
C9_Witness ==
    /\ pc = "gains"
    /\ music_files[1] = 3
    /\ duration = 7
    /\ music_segments[1].len = 7
    /\ ambient_sound = 60000

RECURSIVE SumRaw(_)
SumRaw(k) ==
    IF k = 0 THEN 0
    ELSE SumRaw(k - 1)
         + ((paragraphs[music_segments[k].par + 1].end
             - paragraphs[music_segments[k].par + 1].start) * total_duration)
           \div PropDen

\* C10: when every segment is at least crossfade_duration long, the joined
\* timeline before the length adjustment is as long as the sum of the
\* uncompensated durations of the paragraphs that received a segment.
C10_ExactCompensation ==
    ( /\ pc = "join"
      /\ j > Len(music_segments)
      /\ \A a \in DOMAIN music_segments :
           music_segments[a].len >= crossfade_duration )
    => final_audio = SumRaw(Len(music_segments))

====
